---- MODULE Spec2Model ----
(***************************************************************************)
(* Model of cyberbrain/execution_log.py: the Logger that scans the         *)
(* bytecode executed since the last observation and records Mutations.     *)
(* The traced frame is modelled as a small bytecode interpreter so that    *)
(* the frames handed to detect_chanages are frames a program can produce.  *)
(***************************************************************************)
EXTENDS Integers, Sequences, FiniteSets, TLC

VARIABLES
    instructions,            \* self.instructions: offset -> Instruction
    execution_start_index,   \* self.execution_start_index
    next_jump_location,      \* self.next_jump_location
    value_stack,             \* self.value_stack (the shadow stack)
    mutations,               \* self.mutations
    raised,                  \* outcome of the last detect_chanages call
    f_lasti,                 \* frame.f_lasti
    f_locals,                \* frame.f_locals
    f_globals,               \* frame.f_globals
    f_builtins,              \* frame.f_builtins
    f_stack,                 \* the interpreter's evaluation stack (not visible to the Logger)
    f_shared,                \* frame.f_locals is frame.f_globals (a module-level frame)
    running,                 \* the frame has not returned or died
    steps,                   \* number of instructions the frame has executed
    heap,                    \* object store: object id -> state of the object
    mutinfo,                 \* history: for each Mutation, the circumstances of its recording
    scanlog,                 \* history: the instructions passed to value_stack.handle_instruction
    executed,                \* history: the offsets the frame has executed, in order
    since,                   \* history: the offsets executed since the last observation
    every,                   \* history: an observation was made at every executed instruction
    mono,                    \* history: only successful linear scans, last_i never decreasing
    fatal,                   \* history: an observation has raised StackUnderflow or NotFound
    call                     \* history: the last operation and the Logger state before it

vars == <<instructions, execution_start_index, next_jump_location, value_stack,
          mutations, raised, f_lasti, f_locals, f_globals, f_builtins, f_stack,
          f_shared, running, steps, heap, mutinfo, scanlog, executed, since,
          every, mono, fatal, call>>

\* ---------------------------------------------------------------- bounds

MaxMutations == 4
MaxStack == 4
MaxSteps == 12
MaxScanned == 12

\* ------------------------------------------------------------- constants

\* Python's None as the value of next_jump_location (offsets are >= 0).
None == -1
\* A scope that has no binding for a name.
Absent == 0
\* Width of one instruction in bytes.
Step == 2
\* create_logger is called from tracer.init(): CALL_METHOD at f_lasti, then POP_TOP.
SetupSkip == 4
\* frame.f_lasti when the Logger is constructed.
CreateLasti == 0

\* dis.hasjrel and dis.hasjabs, restricted to the opcodes of the modelled programs.
hasjrel == {"JUMP_FORWARD"}
hasjabs == {"JUMP_ABSOLUTE", "POP_JUMP_IF_FALSE"}

\* ------------------------------------------------------- the object store

\* Objects 1..3 are the code's constants 0, 1, 2 (immutable); 4 is the mutable
\* object bound to "o"; 5 and 6 are mutable objects that may be bound to "x"
\* in the global and the builtin scope.
InitHeap == <<0, 1, 2, 0, 5, 6>>
Immutable(id) == id \in {1, 2, 3}
ConstObj(argval) ==
    CASE argval = "0" -> 1
      [] argval = "1" -> 2
      [] argval = "2" -> 3

\* ------------------------------------------------------------- programs

I(op, arg, argval) == [opname |-> op, arg |-> arg, argval |-> argval]

Prelude == << I("CALL_METHOD", 0, ""), I("POP_TOP", 0, "") >>
Epilogue == << I("LOAD_CONST", 0, "0"), I("RETURN_VALUE", 0, "") >>

\* x = 1; y = 2; a jump over a dead store (the scenario of the specification).
ProgJumpAbs == Prelude \o <<
    I("LOAD_CONST", 1, "1"), I("STORE_NAME", 0, "x"),
    I("LOAD_CONST", 2, "2"), I("STORE_FAST", 1, "y"),
    I("JUMP_ABSOLUTE", 18, ""),
    I("LOAD_CONST", 1, "1"), I("STORE_NAME", 1, "y") >> \o Epilogue

\* o.value = 1; p = o; p.value = 2
ProgAttr == Prelude \o <<
    I("LOAD_CONST", 1, "1"), I("LOAD_NAME", 0, "o"), I("STORE_ATTR", 0, "value"),
    I("LOAD_NAME", 0, "o"), I("STORE_NAME", 1, "p"),
    I("LOAD_CONST", 2, "2"), I("LOAD_NAME", 1, "p"), I("STORE_ATTR", 0, "value") >> \o Epilogue

\* if c: x = 1  else: x = 2
ProgIfElse == Prelude \o <<
    I("LOAD_NAME", 0, "c"), I("POP_JUMP_IF_FALSE", 14, ""),
    I("LOAD_CONST", 1, "1"), I("STORE_NAME", 0, "x"),
    I("JUMP_FORWARD", 4, ""),
    I("LOAD_CONST", 2, "2"), I("STORE_NAME", 0, "x") >> \o Epilogue

\* if c: x = 1
\* y = 2
ProgIf == Prelude \o <<
    I("LOAD_NAME", 0, "c"), I("POP_JUMP_IF_FALSE", 12, ""),
    I("LOAD_CONST", 1, "1"), I("STORE_NAME", 0, "x"),
    I("LOAD_CONST", 2, "2"), I("STORE_NAME", 1, "y") >> \o Epilogue

\* x = 1; del x; y = 2
ProgDel == Prelude \o <<
    I("LOAD_CONST", 1, "1"), I("STORE_NAME", 0, "x"),
    I("DELETE_NAME", 0, "x"),
    I("LOAD_CONST", 2, "2"), I("STORE_NAME", 1, "y") >> \o Epilogue

\* while True: x = 1; if not c: break
ProgLoop == Prelude \o <<
    I("LOAD_CONST", 1, "1"), I("STORE_NAME", 0, "x"),
    I("LOAD_NAME", 0, "c"), I("POP_JUMP_IF_FALSE", 14, ""),
    I("JUMP_ABSOLUTE", 4, "") >> \o Epilogue

Programs == {ProgJumpAbs, ProgAttr, ProgIfElse, ProgIf, ProgDel, ProgLoop}

\* dis.get_instructions(frame.f_code) keyed by offset (Logger.__init__).
get_instructions(code) ==
    [off \in {Step * (k - 1) : k \in 1..Len(code)} |->
        LET ins == code[(off \div Step) + 1] IN
        [offset |-> off, opname |-> ins.opname, arg |-> ins.arg, argval |-> ins.argval]]

\* ------------------------------------------------ ValueStack (value_stack.py)

Pops(opname) ==
    CASE opname \in {"STORE_NAME", "STORE_FAST", "POP_JUMP_IF_FALSE", "POP_TOP",
                     "RETURN_VALUE"} -> 1
      [] opname \in {"STORE_ATTR", "CALL_METHOD"} -> 2
      [] OTHER -> 0

Pushes(instr) ==
    CASE instr.opname \in {"LOAD_CONST", "LOAD_NAME"} -> <<instr.argval>>
      [] instr.opname = "CALL_METHOD" -> <<"">>
      [] OTHER -> <<>>

\* ValueStack.handle_instruction: replay the instruction's stack effect.
handle_instruction(stack, instr) ==
    IF Len(stack) < Pops(instr.opname)
    THEN [err |-> "StackUnderflow", stack |-> stack]
    ELSE [err |-> "none",
          stack |-> SubSeq(stack, 1, Len(stack) - Pops(instr.opname)) \o Pushes(instr)]

\* ValueStack.tos / ValueStack.tos1
tos(stack) ==
    IF Len(stack) < 1 THEN [err |-> "StackUnderflow", val |-> ""]
    ELSE [err |-> "none", val |-> stack[Len(stack)]]

tos1(stack) ==
    IF Len(stack) < 2 THEN [err |-> "StackUnderflow", val |-> ""]
    ELSE [err |-> "none", val |-> stack[Len(stack) - 1]]

\* ----------------------------------------------------------------- Logger

\* The Logger and the object store it allocates copies in, as one record.
Self ==
    [execution_start_index |-> execution_start_index,
     next_jump_location |-> next_jump_location,
     value_stack |-> value_stack,
     mutations |-> mutations,
     raised |-> raised,
     heap |-> heap,
     mutinfo |-> mutinfo,
     scanlog |-> scanlog]

Frame ==
    [f_lasti |-> f_lasti, f_locals |-> f_locals, f_globals |-> f_globals,
     f_builtins |-> f_builtins]

Mutation(target, value, source) ==
    [target |-> target, value |-> value, source |-> source]

\* _tos reading the entry below the top.
_tos_below(self) == tos1(self.value_stack)

_tos(self) == tos(self.value_stack)

\* _tos1 reading the top.
_tos1_top(self) == tos(self.value_stack)

_tos1(self) == tos1(self.value_stack)

\* A copy that shares the object.
deepcopy_alias(h, id) == [value |-> id, heap |-> h]

\* copy.deepcopy: an immutable object is returned as it is, any other object
\* is copied into a new object.
deepcopy(h, id) ==
    IF Immutable(id) THEN [value |-> id, heap |-> h]
    ELSE [value |-> Len(h) + 1, heap |-> Append(h, h[id])]

\* The lookup with the global scope asked first.
_deepcopy_from_frame_globals_first(h, frame, name) ==
    IF name \in DOMAIN frame.f_globals
    THEN [err |-> "none", from |-> frame.f_globals[name]] @@ deepcopy(h, frame.f_globals[name])
    ELSE IF name \in DOMAIN frame.f_locals
    THEN [err |-> "none", from |-> frame.f_locals[name]] @@ deepcopy(h, frame.f_locals[name])
    ELSE IF name \in DOMAIN frame.f_builtins
    THEN [err |-> "none", from |-> frame.f_builtins[name]] @@ deepcopy(h, frame.f_builtins[name])
    ELSE [err |-> "NameResolutionError", from |-> Absent, value |-> Absent, heap |-> h]

_deepcopy_from_frame(h, frame, name) ==
    IF name \in DOMAIN frame.f_locals
    THEN [err |-> "none", from |-> frame.f_locals[name]] @@ deepcopy(h, frame.f_locals[name])
    ELSE IF name \in DOMAIN frame.f_globals
    THEN [err |-> "none", from |-> frame.f_globals[name]] @@ deepcopy(h, frame.f_globals[name])
    ELSE IF name \in DOMAIN frame.f_builtins
    THEN [err |-> "none", from |-> frame.f_builtins[name]] @@ deepcopy(h, frame.f_builtins[name])
    ELSE [err |-> "NameResolutionError", from |-> Absent, value |-> Absent, heap |-> h]

\* History of one recorded Mutation: the instruction, the shadow stack before
\* the instruction is replayed, the looked-up name, the object it named in each
\* scope and that object's state, all at the moment of recording.
Info(self, frame, instr, name, from) ==
    LET In(scope) == IF name \in DOMAIN scope THEN self.heap[scope[name]] ELSE None IN
    [off |-> instr.offset, opname |-> instr.opname, argval |-> instr.argval,
     stk |-> self.value_stack, name |-> name, from |-> from,
     nscan |-> Len(self.scanlog),
     state |-> self.heap[from],
     local |-> In(frame.f_locals), global |-> In(frame.f_globals),
     builtin |-> In(frame.f_builtins)]

\* The Mutation put at the head of the log.
Emit_prepend(self, frame, instr, target, name, source) ==
    LET v == _deepcopy_from_frame(self.heap, frame, name) IN
    IF target.err # "none" THEN [self EXCEPT !.raised = target.err]
    ELSE IF v.err # "none" THEN [self EXCEPT !.raised = v.err]
    ELSE IF source.err # "none" THEN [self EXCEPT !.raised = source.err]
    ELSE [self EXCEPT
            !.mutations = <<Mutation(target.val, v.value, source.val)>> \o @,
            !.heap = v.heap,
            !.mutinfo = <<Info(self, frame, instr, name, v.from)>> \o @]

\* The append of one Mutation, or the exception that prevented it.
Emit(self, frame, instr, target, name, source) ==
    LET v == _deepcopy_from_frame(self.heap, frame, name) IN
    IF target.err # "none" THEN [self EXCEPT !.raised = target.err]
    ELSE IF v.err # "none" THEN [self EXCEPT !.raised = v.err]
    ELSE IF source.err # "none" THEN [self EXCEPT !.raised = source.err]
    ELSE [self EXCEPT
            !.mutations = Append(@, Mutation(target.val, v.value, source.val)),
            !.heap = v.heap,
            !.mutinfo = Append(@, Info(self, frame, instr, name, v.from))]

\* History of one call of value_stack.handle_instruction: the instruction,
\* the length of the log at the call, and whether the replay succeeded.
Passed(self, instr, replayed) ==
    [off |-> instr.offset, opname |-> instr.opname, nmut |-> Len(self.mutations),
     ok |-> replayed.err = "none"]

\* The stack effect replayed before the Mutation is recorded.
_log_changed_value_replay_first(self, frame, instr) ==
    LET replayed == handle_instruction(self.value_stack, instr)
        passed == [self EXCEPT !.scanlog = Append(@, Passed(self, instr, replayed))]
        updated == [passed EXCEPT !.value_stack = replayed.stack]
    IN  IF replayed.err # "none" THEN [passed EXCEPT !.raised = replayed.err]
        ELSE IF instr.opname \in {"STORE_NAME", "STORE_FAST"}
        THEN Emit(updated, frame, instr, [err |-> "none", val |-> instr.argval],
                  instr.argval, _tos(updated))
        ELSE IF instr.opname = "STORE_ATTR"
        THEN Emit(updated, frame, instr, _tos(updated), _tos(updated).val, _tos1(updated))
        ELSE updated

_log_changed_value(self, frame, instr) ==
    LET logged ==
            IF instr.opname \in {"STORE_NAME", "STORE_FAST"}
            THEN Emit(self, frame, instr, [err |-> "none", val |-> instr.argval],
                      instr.argval, _tos(self))
            ELSE IF instr.opname = "STORE_ATTR"
            THEN Emit(self, frame, instr, _tos(self), _tos(self).val, _tos1(self))
            ELSE self
        replayed == handle_instruction(logged.value_stack, instr)
        passed == [logged EXCEPT !.scanlog = Append(@, Passed(logged, instr, replayed))]
    IN  IF logged.raised # "none" THEN logged
        ELSE IF replayed.err # "none" THEN [passed EXCEPT !.raised = replayed.err]
        ELSE [passed EXCEPT !.value_stack = replayed.stack]

\* The relative target without the width of the jump instruction.
_record_jump_location_no_width(self, instr) ==
    IF instr.opname \in hasjrel
    THEN [self EXCEPT !.next_jump_location = instr.offset + instr.arg]
    ELSE IF instr.opname \in hasjabs
    THEN [self EXCEPT !.next_jump_location = instr.arg]
    ELSE [self EXCEPT !.next_jump_location = None]

\* The absolute target computed as a relative one.
_record_jump_location_abs_as_rel(self, instr) ==
    IF instr.opname \in hasjrel \cup hasjabs
    THEN [self EXCEPT !.next_jump_location = instr.offset + 2 + instr.arg]
    ELSE [self EXCEPT !.next_jump_location = None]

\* The recorded target kept when the instruction is not a jump.
_record_jump_location_keep(self, instr) ==
    IF instr.opname \in hasjrel
    THEN [self EXCEPT !.next_jump_location = instr.offset + 2 + instr.arg]
    ELSE IF instr.opname \in hasjabs
    THEN [self EXCEPT !.next_jump_location = instr.arg]
    ELSE self

_record_jump_location_if_exists(self, instr) ==
    IF instr.opname \in hasjrel
    THEN [self EXCEPT !.next_jump_location = instr.offset + 2 + instr.arg]
    ELSE IF instr.opname \in hasjabs
    THEN [self EXCEPT !.next_jump_location = instr.arg]
    ELSE [self EXCEPT !.next_jump_location = None]

\* self._record_jump_location_if_exists(self.instructions[last_i])
RecordAt(self, last_i) ==
    IF last_i \notin DOMAIN instructions THEN [self EXCEPT !.raised = "NotFound"]
    ELSE _record_jump_location_if_exists(self, instructions[last_i])

\* The comparison made with the scan cursor.
JumpTaken_cursor(self, last_i) == last_i = self.execution_start_index

\* if last_i == self.next_jump_location
JumpTaken(self, last_i) == last_i = self.next_jump_location

\* The scan with last_i included in the range.
RECURSIVE Scan_inclusive(_, _, _, _)
Scan_inclusive(self, frame, i, last_i) ==
    IF i > last_i \/ self.raised # "none" THEN self
    ELSE IF i \notin DOMAIN instructions THEN [self EXCEPT !.raised = "NotFound"]
    ELSE Scan_inclusive(_log_changed_value(self, frame, instructions[i]), frame,
                        i + Step, last_i)

\* for i in range(self.execution_start_index, last_i, 2): self._log_changed_value(...)
RECURSIVE Scan(_, _, _, _)
Scan(self, frame, i, last_i) ==
    IF i >= last_i \/ self.raised # "none" THEN self
    ELSE IF i \notin DOMAIN instructions THEN [self EXCEPT !.raised = "NotFound"]
    ELSE Scan(_log_changed_value(self, frame, instructions[i]), frame, i + Step, last_i)

\* The linear scan that leaves the cursor where it was.
detect_chanages_stale_cursor(self, frame) ==
    LET last_i == frame.f_lasti
        entered == [self EXCEPT !.raised = "none"]
    IN  IF JumpTaken(entered, last_i)
        THEN RecordAt([entered EXCEPT !.execution_start_index = last_i], last_i)
        ELSE LET scanned == Scan(entered, frame, entered.execution_start_index, last_i)
                 recorded == RecordAt(scanned, last_i)
             IN  IF scanned.raised # "none" THEN scanned
                 ELSE recorded

detect_chanages(self, frame) ==
    LET last_i == frame.f_lasti
        entered == [self EXCEPT !.raised = "none"]
    IN  IF JumpTaken(entered, last_i)
        THEN RecordAt([entered EXCEPT !.execution_start_index = last_i], last_i)
        ELSE LET scanned == Scan(entered, frame, entered.execution_start_index, last_i)
                 recorded == RecordAt(scanned, last_i)
             IN  IF scanned.raised # "none" THEN scanned
                 ELSE IF recorded.raised # "none" THEN recorded
                 ELSE [recorded EXCEPT !.execution_start_index = last_i]

\* ------------------------------------------------------------ the frame

Bind(scope, name, id) == [n \in DOMAIN scope \cup {name} |-> IF n = name THEN id ELSE scope[n]]

Unbind(scope, name) == [n \in DOMAIN scope \ {name} |-> scope[n]]

\* The interpreter's own name lookup (LOAD_NAME).
Lookup(name) ==
    IF name \in DOMAIN f_locals THEN f_locals[name]
    ELSE IF name \in DOMAIN f_globals THEN f_globals[name]
    ELSE IF name \in DOMAIN f_builtins THEN f_builtins[name]
    ELSE Absent

Cur == instructions[f_lasti]

Top(stack) == stack[Len(stack)]

Pop(stack, k) == SubSeq(stack, 1, Len(stack) - k)

LoggerUnchanged ==
    UNCHANGED <<instructions, execution_start_index, next_jump_location, value_stack,
                mutations, raised, mutinfo, scanlog, mono, fatal>>

Executed ==
    /\ steps < MaxSteps
    /\ steps' = steps + 1
    /\ executed' = Append(executed, f_lasti)
    /\ since' = Append(since, f_lasti)
    /\ every' = (every /\ call.op = "detect_chanages" /\ call.last_i = f_lasti
                       /\ raised = "none")
    /\ call' = [op |-> Cur.opname, last_i |-> f_lasti,
                start |-> execution_start_index, njl |-> next_jump_location,
                nmut |-> Len(mutations), stack |-> value_stack,
                nscan |-> Len(scanlog), since |-> since, rep |-> FALSE]

\* x = <object>: the local scope is written; in a module-level frame it is the global scope.
SetLocals(new) ==
    /\ f_locals' = new
    /\ f_globals' = IF f_shared THEN new ELSE f_globals

ExecLoad ==
    /\ running
    /\ Cur.opname \in {"LOAD_CONST", "LOAD_NAME"}
    /\ LET id == IF Cur.opname = "LOAD_CONST" THEN ConstObj(Cur.argval)
                 ELSE Lookup(Cur.argval)
       IN  IF id = Absent
           THEN running' = FALSE /\ UNCHANGED <<f_lasti, f_stack>>
           ELSE running' = TRUE /\ f_lasti' = f_lasti + Step /\ f_stack' = Append(f_stack, id)
    /\ Executed
    /\ LoggerUnchanged
    /\ UNCHANGED <<f_locals, f_globals, f_builtins, f_shared, heap>>

ExecStoreName ==
    /\ running
    /\ Cur.opname \in {"STORE_NAME", "STORE_FAST"}
    /\ SetLocals(Bind(f_locals, Cur.argval, Top(f_stack)))
    /\ f_stack' = Pop(f_stack, 1)
    /\ f_lasti' = f_lasti + Step
    /\ Executed
    /\ LoggerUnchanged
    /\ UNCHANGED <<f_builtins, f_shared, running, heap>>

\* TOS.value = TOS1: the object on top of the stack is changed in place.
ExecStoreAttr ==
    /\ running
    /\ Cur.opname = "STORE_ATTR"
    /\ IF Immutable(Top(f_stack))
       THEN running' = FALSE /\ UNCHANGED <<f_lasti, f_stack, heap>>
       ELSE /\ heap' = [heap EXCEPT ![Top(f_stack)] = heap[f_stack[Len(f_stack) - 1]]]
            /\ f_stack' = Pop(f_stack, 2)
            /\ f_lasti' = f_lasti + Step
            /\ running' = TRUE
    /\ Executed
    /\ LoggerUnchanged
    /\ UNCHANGED <<f_locals, f_globals, f_builtins, f_shared>>

ExecDelete ==
    /\ running
    /\ Cur.opname = "DELETE_NAME"
    /\ IF Cur.argval \notin DOMAIN f_locals
       THEN running' = FALSE /\ UNCHANGED <<f_lasti, f_locals, f_globals>>
       ELSE /\ SetLocals(Unbind(f_locals, Cur.argval))
            /\ f_lasti' = f_lasti + Step
            /\ running' = TRUE
    /\ Executed
    /\ LoggerUnchanged
    /\ UNCHANGED <<f_builtins, f_shared, f_stack, heap>>

ExecJump ==
    /\ running
    /\ Cur.opname \in hasjrel \cup hasjabs
    /\ f_lasti' = CASE Cur.opname = "JUMP_FORWARD" -> f_lasti + Step + Cur.arg
                    [] Cur.opname = "JUMP_ABSOLUTE" -> Cur.arg
                    [] Cur.opname = "POP_JUMP_IF_FALSE" ->
                          IF heap[Top(f_stack)] = 0 THEN Cur.arg ELSE f_lasti + Step
    /\ f_stack' = IF Cur.opname = "POP_JUMP_IF_FALSE" THEN Pop(f_stack, 1) ELSE f_stack
    /\ Executed
    /\ LoggerUnchanged
    /\ UNCHANGED <<f_locals, f_globals, f_builtins, f_shared, running, heap>>

ExecReturn ==
    /\ running
    /\ Cur.opname = "RETURN_VALUE"
    /\ f_stack' = Pop(f_stack, 1)
    /\ running' = FALSE
    /\ Executed
    /\ LoggerUnchanged
    /\ UNCHANGED <<f_lasti, f_locals, f_globals, f_builtins, f_shared, heap>>

\* ------------------------------------------------------------ observation

\* The trace hook calls logger.detect_chanages(frame).
DetectChanges ==
    LET after == detect_chanages(Self, Frame) IN
    /\ Len(after.mutations) <= MaxMutations
    /\ Len(after.value_stack) <= MaxStack
    /\ Len(after.scanlog) <= MaxScanned
    /\ execution_start_index' = after.execution_start_index
    /\ next_jump_location' = after.next_jump_location
    /\ value_stack' = after.value_stack
    /\ mutations' = after.mutations
    /\ raised' = after.raised
    /\ heap' = after.heap
    /\ mutinfo' = after.mutinfo
    /\ scanlog' = after.scanlog
    /\ since' = <<>>
    /\ fatal' = (fatal \/ after.raised \in {"StackUnderflow", "NotFound"})
    /\ mono' = (mono /\ after.raised = "none" /\ f_lasti # next_jump_location
                     /\ f_lasti >= execution_start_index)
    /\ call' = [op |-> "detect_chanages", last_i |-> f_lasti,
                start |-> execution_start_index, njl |-> next_jump_location,
                nmut |-> Len(mutations), stack |-> value_stack,
                nscan |-> Len(scanlog), since |-> since,
                rep |-> (call.op = "detect_chanages" /\ call.last_i = f_lasti
                           /\ raised = "none")]
    /\ UNCHANGED <<instructions, f_lasti, f_locals, f_globals, f_builtins, f_stack,
                   f_shared, running, steps, executed, every>>

\* ---------------------------------------------------------- specification

\* Logger.__init__(frame), and the frame when tracer.init() has returned and
\* its POP_TOP has run: the first instruction of the traced code is next.
Init ==
    \E code \in Programs, cval \in {1, 2}, gx \in BOOLEAN, bx \in BOOLEAN, shared \in BOOLEAN :
        /\ instructions = get_instructions(code)
        /\ execution_start_index = CreateLasti + SetupSkip
        /\ next_jump_location = None
        /\ value_stack = <<>>
        /\ mutations = <<>>
        /\ raised = "none"
        /\ f_lasti = CreateLasti + SetupSkip
        /\ f_globals = [n \in {"o", "c"} \cup (IF gx THEN {"x"} ELSE {}) |->
                           CASE n = "o" -> 4 [] n = "c" -> cval [] n = "x" -> 5]
        /\ f_locals = IF shared THEN f_globals ELSE [n \in {} |-> Absent]
        /\ f_builtins = [n \in (IF bx THEN {"x"} ELSE {}) |-> 6]
        /\ f_stack = <<>>
        /\ f_shared = shared
        /\ running = TRUE
        /\ steps = 0
        /\ heap = InitHeap
        /\ mutinfo = <<>>
        /\ scanlog = <<>>
        /\ executed = <<>>
        /\ since = <<>>
        /\ every = TRUE
        /\ mono = TRUE
        /\ fatal = FALSE
        /\ call = [op |-> "__init__", last_i |-> CreateLasti, start |-> None,
                   njl |-> None, nmut |-> 0, stack |-> <<>>,
                   nscan |-> 0, since |-> <<>>, rep |-> FALSE]

Next ==
    \/ ExecLoad
    \/ ExecStoreName
    \/ ExecStoreAttr
    \/ ExecDelete
    \/ ExecJump
    \/ ExecReturn
    \/ DetectChanges

Spec == Init /\ [][Next]_vars

TypeOK ==
    /\ execution_start_index \in DOMAIN instructions
    /\ next_jump_location \in DOMAIN instructions \cup {None}
    /\ raised \in {"none", "NameResolutionError", "StackUnderflow", "NotFound"}
    /\ Len(mutations) = Len(mutinfo)
    /\ f_lasti \in DOMAIN instructions

\* ------------------------------------------------------------ properties

Observed == call.op = "detect_chanages"

Succeeded == Observed /\ raised = "none"

\* The offsets range(start, last_i, 2) of a linear scan.
Range(start, last_i) ==
    {off \in start..(last_i - 1) : (off - start) % Step = 0}

StoreName == {"STORE_NAME", "STORE_FAST"}

InScopes(name) ==
    name \in DOMAIN f_locals \cup DOMAIN f_globals \cup DOMAIN f_builtins

\* A store instruction whose name (for STORE_ATTR: the name loaded as the owner
\* of the attribute) is bound in one of the frame's scopes.
ResolvableStore(off) ==
    /\ off \in DOMAIN instructions
    /\ \/ instructions[off].opname \in StoreName /\ InScopes(instructions[off].argval)
       \/ /\ instructions[off].opname = "STORE_ATTR"
          /\ (off - Step) \in DOMAIN instructions
          /\ instructions[off - Step].opname = "LOAD_NAME"
          /\ InScopes(instructions[off - Step].argval)

UnresolvableStore(off) ==
    /\ off \in DOMAIN instructions
    /\ instructions[off].opname \in StoreName
    /\ ~InScopes(instructions[off].argval)

StraightLine ==
    \A off \in DOMAIN instructions : instructions[off].opname \notin hasjrel \cup hasjabs

\* The state, at recording time, of the object a name stood for: the local
\* scope's if it has the name, else the global scope's, else the builtin scope's.
FirstHit(g) ==
    IF g.local # None THEN g.local
    ELSE IF g.global # None THEN g.global
    ELSE g.builtin

Recorded == 1..Len(mutations)

\* C1: an observation whose last_i equals the recorded next_jump_location
\* appends no Mutation and leaves execution_start_index equal to last_i.
C1_NoScanOnJump ==
    (Observed /\ call.njl # None /\ call.last_i = call.njl)
        => (Len(mutations) = call.nmut /\ execution_start_index = call.last_i)

\* An observation at the recorded target, with a store instruction lying
\* between the cursor and the target.
C1_Witness ==
    /\ Observed /\ call.njl # None /\ call.last_i = call.njl
    /\ \E off \in Range(call.start, call.last_i) :
          off \in DOMAIN instructions /\ instructions[off].opname \in StoreName

\* C2: in a program without jumps an observation appends exactly as many
\* Mutations as there are store instructions with a resolvable name at the
\* offsets execution_start_index, execution_start_index + 2, ... < last_i.
C2_ExhaustiveLinearScan ==
    (Observed /\ StraightLine /\ raised \notin {"StackUnderflow", "NotFound"})
        => Len(mutations) - call.nmut =
              Cardinality({off \in Range(call.start, call.last_i) : ResolvableStore(off)})

\* C3: the object a Mutation holds as its value stays in the state the live
\* object had when the Mutation was recorded.
C3_DeepCopyIndependence ==
    \A k \in Recorded : heap[mutations[k].value] = mutinfo[k].state

\* A Mutation whose live object has been changed in place since.
C3_Witness ==
    \E k \in Recorded : heap[mutinfo[k].from] # mutinfo[k].state

\* C4 as stated: the Mutation of a STORE_ATTR has the shadow-stack top as its
\* target, a copy of the object the top names as its value, and the
\* shadow-stack top as its source.
C4_StoreAttrSourceIsTop ==
    \A k \in Recorded : mutinfo[k].opname = "STORE_ATTR" =>
        /\ mutations[k].target = Top(mutinfo[k].stk)
        /\ heap[mutations[k].value] = FirstHit(mutinfo[k])
        /\ mutations[k].source = Top(mutinfo[k].stk)

\* C4 amended: the Mutation of a STORE_ATTR has the shadow-stack top as its
\* target, a copy of the object that top names in the frame as its value, and
\* the entry below the top (TOS1) as its source.
C4_StoreAttrMutation ==
    \A k \in Recorded : mutinfo[k].opname = "STORE_ATTR" =>
        /\ Len(mutinfo[k].stk) >= 2
        /\ mutations[k].target = Top(mutinfo[k].stk)
        /\ mutinfo[k].name = Top(mutinfo[k].stk)
        /\ heap[mutations[k].value] = FirstHit(mutinfo[k])
        /\ mutations[k].value # mutinfo[k].from
        /\ mutations[k].source = mutinfo[k].stk[Len(mutinfo[k].stk) - 1]

\* A recorded STORE_ATTR whose shadow-stack top and TOS1 differ.
C4_Witness ==
    \E k \in Recorded :
        /\ mutinfo[k].opname = "STORE_ATTR"
        /\ Top(mutinfo[k].stk) # mutinfo[k].stk[Len(mutinfo[k].stk) - 1]

\* C5: the Mutation of a STORE_NAME or STORE_FAST naming n has target n, as
\* value a copy of what n resolves to in the frame at observation time, and as
\* source the shadow-stack top before the store's own stack effect is replayed.
C5_StoreNameMutation ==
    \A k \in Recorded : mutinfo[k].opname \in StoreName =>
        /\ mutations[k].target = mutinfo[k].argval
        /\ mutinfo[k].name = mutinfo[k].argval
        /\ heap[mutations[k].value] = FirstHit(mutinfo[k])
        /\ mutations[k].source = Top(mutinfo[k].stk)

\* A recorded name store whose shadow stack held two different entries on top.
C5_Witness ==
    \E k \in Recorded :
        /\ mutinfo[k].opname \in StoreName
        /\ Len(mutinfo[k].stk) >= 2
        /\ Top(mutinfo[k].stk) # mutinfo[k].stk[Len(mutinfo[k].stk) - 1]

\* C6: after an observation at last_i = O on a relative jump with operand D,
\* next_jump_location = O + 2 + D.
C6_RelativeJumpTarget ==
    (Succeeded /\ instructions[call.last_i].opname \in hasjrel)
        => next_jump_location = call.last_i + 2 + instructions[call.last_i].arg

C6_Witness ==
    /\ Succeeded /\ instructions[call.last_i].opname \in hasjrel
    /\ instructions[call.last_i].arg > 0

\* C7: after an observation at last_i on an absolute jump with operand A,
\* next_jump_location = A.
C7_AbsoluteJumpTarget ==
    (Succeeded /\ instructions[call.last_i].opname \in hasjabs)
        => next_jump_location = instructions[call.last_i].arg

C7_Witness ==
    /\ Succeeded /\ instructions[call.last_i].opname \in hasjabs
    /\ Len(mutations) > call.nmut

\* C8: after every successful observation, in either branch,
\* next_jump_location is determined by the instruction at last_i alone, and
\* is None when that instruction is not a jump.
C8_JumpLocationRederived ==
    Succeeded =>
        LET instr == instructions[call.last_i] IN
        next_jump_location =
            CASE instr.opname \in hasjrel -> instr.offset + Step + instr.arg
              [] instr.opname \in hasjabs -> instr.arg
              [] OTHER -> None

\* A jump-taken observation landing on an instruction that is not a jump:
\* the target recorded before is gone.
C8_Witness ==
    /\ Succeeded /\ call.njl # None /\ call.last_i = call.njl
    /\ instructions[call.last_i].opname \notin hasjrel \cup hasjabs
    /\ next_jump_location = None

\* C9: the recorded value is that of the first scope, in the order local,
\* global, builtin, that has the name.
C9_ResolutionOrder ==
    \A k \in Recorded :
        /\ mutinfo[k].local # None => heap[mutations[k].value] = mutinfo[k].local
        /\ (mutinfo[k].local = None /\ mutinfo[k].global # None)
              => heap[mutations[k].value] = mutinfo[k].global
        /\ (mutinfo[k].local = None /\ mutinfo[k].global = None)
              => heap[mutations[k].value] = mutinfo[k].builtin

\* A Mutation whose name was bound to objects in different states in the
\* local and in the global scope.
C9_Witness ==
    \E k \in Recorded :
        /\ mutinfo[k].local # None /\ mutinfo[k].global # None
        /\ mutinfo[k].local # mutinfo[k].global

\* C10: an observation that scans a store whose name is in no scope still
\* records the resolvable stores of its range and advances
\* execution_start_index to last_i.
C10_NameMissRecoverable ==
    (/\ Observed /\ call.last_i # call.njl
     /\ raised \notin {"StackUnderflow", "NotFound"}
     /\ \E off \in Range(call.start, call.last_i) : UnresolvableStore(off))
        => /\ execution_start_index = call.last_i
           /\ Len(mutations) - call.nmut =
                 Cardinality({off \in Range(call.start, call.last_i) : ResolvableStore(off)})

\* ------------------------------------------ properties of the whole trace

Fatal == {"StackUnderflow", "NotFound"}

\* C11: once an observation has failed with a shadow-stack underflow or an
\* instruction lookup miss, no later observation passes an instruction to the
\* simulator or appends a Mutation.
C11_FatalStopsTrace ==
    [][fatal => (mutations' = mutations /\ scanlog' = scanlog)]_vars

\* C12: every step leaves the log it found as a prefix of the log, and the
\* Mutations one observation appends are in increasing order of the offsets
\* of the store instructions that produced them.
C12_AppendOnlyOrdered ==
    [][/\ Len(mutations') >= Len(mutations)
       /\ SubSeq(mutations', 1, Len(mutations)) = mutations
       /\ \A j, k \in (Len(mutations) + 1)..Len(mutations') :
             j < k => mutinfo'[j].off < mutinfo'[k].off]_vars

\* An observation that found a non-empty log and appended two Mutations.
C12_Witness ==
    Observed /\ call.nmut >= 1 /\ Len(mutations) >= call.nmut + 2

\* The offset of the last instruction whose recording and replay both
\* completed, or None when there is none.
LastScanned ==
    LET done == {j \in 1..Len(scanlog) : scanlog[j].ok} IN
    IF done = {} THEN None
    ELSE scanlog[CHOOSE j \in done : \A i \in done : i <= j].off

\* C13: after any sequence of observations execution_start_index is the
\* offset right after the last fully scanned instruction (the initial
\* f_lasti + 4 when nothing has been scanned), or the jump target when the
\* last observation took the jump-taken branch.
C13_ScanCursorInvariant ==
    Observed =>
        execution_start_index =
            IF call.njl # None /\ call.last_i = call.njl THEN call.last_i
            ELSE IF LastScanned = None THEN CreateLasti + SetupSkip
            ELSE LastScanned + Step

Ran(off) == \E j \in 1..Len(executed) : executed[j] = off

\* C14: every Mutation in the log was produced by a store instruction that
\* the frame has executed.
C14_OnlyExecutedStores ==
    \A k \in Recorded : Ran(mutinfo[k].off)

StoreClass == StoreName \cup {"STORE_ATTR"}

\* C15: when an observation's last_i equals the recorded next_jump_location,
\* the frame has executed no store instruction since the previous observation.
C15_JumpDetectionSound ==
    (Observed /\ call.njl # None /\ call.last_i = call.njl)
        => \A j \in 1..Len(call.since) :
              instructions[call.since[j]].opname \notin StoreClass

ScannedOffsets == [j \in 1..Len(scanlog) |-> scanlog[j].off]

\* C16: when a successful observation has been made at every instruction the
\* frame executed, the instructions passed to the simulator are the executed
\* instructions, each once and in execution order.
C16_SimulatorSeesExecution ==
    (Observed /\ raised = "none" /\ every) => ScannedOffsets = executed

\* C17: for every recorded Mutation the next call of the simulator is the one
\* for the same instruction, made when the Mutation is already in the log; an
\* instruction that is not a store is passed to the simulator without a
\* Mutation being appended; and a successful linear scan passes each
\* instruction of its range to the simulator exactly once, in order.
C17_RecordThenReplay ==
    /\ \A k \in Recorded :
          /\ mutinfo[k].nscan < Len(scanlog)
          /\ scanlog[mutinfo[k].nscan + 1].off = mutinfo[k].off
          /\ scanlog[mutinfo[k].nscan + 1].nmut = k
    /\ \A j \in 1..Len(scanlog) :
          scanlog[j].opname \notin StoreClass
              => scanlog[j].nmut = (IF j = 1 THEN 0 ELSE scanlog[j - 1].nmut)
    /\ (Succeeded /\ call.last_i # call.njl) =>
          /\ Len(scanlog) - call.nscan = Cardinality(Range(call.start, call.last_i))
          /\ \A i \in 1..(Len(scanlog) - call.nscan) :
                scanlog[call.nscan + i].off = call.start + Step * (i - 1)

\* A linear scan that recorded a Mutation and passed both its store and an
\* instruction that is not a store to the simulator.
C17_Witness ==
    /\ Succeeded /\ call.last_i # call.njl
    /\ Len(mutations) > call.nmut
    /\ \E j \in (call.nscan + 1)..Len(scanlog) : scanlog[j].opname \notin StoreClass
    /\ \E j \in (call.nscan + 1)..Len(scanlog) : scanlog[j].opname \in StoreClass

\* C18: a detect_chanages call that directly follows a successful call with
\* the same last_i succeeds and leaves the log, the shadow stack,
\* execution_start_index and next_jump_location as it found them, having
\* passed nothing to the simulator.
C18_ObservationIdempotent ==
    (Observed /\ call.rep) =>
        /\ raised = "none"
        /\ Len(mutations) = call.nmut
        /\ value_stack = call.stack
        /\ execution_start_index = call.start
        /\ next_jump_location = call.njl
        /\ Len(scanlog) = call.nscan

\* A repeated observation on a Logger that holds Mutations and a non-empty
\* shadow stack.
C18_Witness ==
    Observed /\ call.rep /\ Len(mutations) >= 1 /\ Len(value_stack) >= 1

Start0 == CreateLasti + SetupSkip

\* C19: while every observation so far was a successful linear scan and
\* last_i never decreased, the instructions passed to the simulator are the
\* offsets from the initial execution_start_index up to (excluding) the latest
\* last_i, each once and in order, no store is logged twice and every store in
\* that range is logged; and an observation with last_i <= the cursor passes
\* nothing to the simulator, appends nothing and moves the cursor to last_i.
C19_ContiguousDisjointScans ==
    /\ (Observed /\ mono) =>
          /\ ScannedOffsets =
                [i \in 1..((call.last_i - Start0) \div Step) |-> Start0 + Step * (i - 1)]
          /\ \A j, k \in Recorded : j # k => mutinfo[j].off # mutinfo[k].off
          /\ \A off \in Range(Start0, call.last_i) :
                instructions[off].opname \in StoreClass
                    => \E k \in Recorded : mutinfo[k].off = off
    /\ (Observed /\ call.last_i <= call.start) =>
          /\ Len(scanlog) = call.nscan
          /\ Len(mutations) = call.nmut
          /\ value_stack = call.stack
          /\ execution_start_index = call.last_i

\* A second scanning observation in a run of successful linear scans.
C19_Witness ==
    /\ Observed /\ mono
    /\ call.nscan >= 1 /\ Len(scanlog) > call.nscan
    /\ Len(mutations) >= 1

\* C20: an observation that raised left the mutation log, the shadow stack,
\* execution_start_index and next_jump_location as they were before the call.
C20_FailedObservationAtomic ==
    (Observed /\ raised # "none") =>
        /\ Len(mutations) = call.nmut
        /\ value_stack = call.stack
        /\ execution_start_index = call.start
        /\ next_jump_location = call.njl

====
